---- MODULE Spec2Model ----
(***************************************************************************)
(* Model of analyze_site.py: one run of the site analysis pipeline.        *)
(*                                                                         *)
(* The browser and the language model are external: every call into them   *)
(* either returns a value drawn from a small set or raises an exception    *)
(* with a message drawn from ErrMsgs.  The first-party logic (code-fence   *)
(* stripping, JSON parsing, the truthiness gate, the subscript chain       *)
(* search_form["params"][0], the exception handlers, the report write and  *)
(* the exit status) is translated statement by statement.                  *)
(*                                                                         *)
(* browser.close(), open() and json.dump() are taken to return normally.   *)
(***************************************************************************)
EXTENDS Integers, Sequences, FiniteSets, TLC

VARIABLES
    pc,             \* position in the module-level pipeline
    browser,        \* "none" | "open" | "closed"
    html,           \* line 99: html of the base page
    analysis,       \* line 100: AnalysisResult of the base page
    selector,       \* line 111
    search_html,    \* lines 126 / 134
    content_error,  \* line 129: message of the first failed content read
    results,        \* lines 14-19: the RunReport
    has_errors,     \* line 20: the error flag
    file,           \* results.json: the JSON documents the file holds
    exit_status,    \* <<>> while running, <<code>> once the process has exited
    calls,          \* history: analyze_page invocations [url, html, result]
    reads,          \* history: post-submit page.content() outcomes
    locates,        \* history: counts returned by page.locator(selector).count()
    fills,          \* history: the page.fill calls that were made, [selector, value]
    presses,        \* history: number of Enter key presses dispatched
    faults          \* history: failures that happened, [kind, at]

vars == <<pc, browser, html, analysis, selector, search_html, content_error,
          results, has_errors, file, exit_status, calls, reads, locates,
          fills, presses, faults>>

----------------------------------------------------------------------------
(* Bounds of the model *)

\* longest model response, in tokens
MaxTextLen == 3
\* largest number of inputs a selector matches on the live page
MaxMatches == 2

(* Program constants *)

\* html[:8000]
HtmlWindow == 8000

BASE_URL == "http://site"
SEARCH_URL == "http://site (search results)"
SEARCH_TEST_QUERY == "test"

----------------------------------------------------------------------------
(* JSON values, as json.loads produces them (Python None is JNull) *)

JNull == [t |-> "null"]
JBool(b) == [t |-> "bool", v |-> b]
JNum(n) == [t |-> "num", v |-> n]
JStr(s) == [t |-> "str", v |-> s]
JList(q) == [t |-> "list", v |-> q]
JObj(f) == [t |-> "obj", v |-> f]

\* the object with no keys
EmptyMap == [k \in {} |-> JNull]

\* variant: the test `is not None` in place of the truth value
NotNone(x) == x # JNull

\* Python truth value of a JSON value (bool(x))
Truthy(x) ==
    CASE x.t = "null" -> FALSE
      [] x.t = "bool" -> x.v
      [] x.t = "num" -> x.v # 0
      [] x.t = "str" -> x.v # ""
      [] x.t = "list" -> x.v # <<>>
      [] x.t = "obj" -> DOMAIN x.v # {}

\* dict.get(k): the value, or None when the key is absent
Get(d, k) == IF k \in DOMAIN d.v THEN d.v[k] ELSE JNull

\* outcome of an expression: a value, or an exception carrying str(e)
Ok(x) == [ok |-> TRUE, val |-> x, msg |-> ""]
Raise(m) == [ok |-> FALSE, val |-> JNull, msg |-> m]

NotSubscriptable(x) ==
    CASE x.t = "null" -> "'NoneType' object is not subscriptable"
      [] x.t = "bool" -> "'bool' object is not subscriptable"
      [] x.t = "num" -> "'int' object is not subscriptable"
      [] OTHER -> "not subscriptable"

\* x[k] for a string key k
SubscriptKey(x, k) ==
    CASE x.t = "obj" -> IF k \in DOMAIN x.v THEN Ok(x.v[k]) ELSE Raise("'" \o k \o "'")
      [] x.t = "list" -> Raise("list indices must be integers or slices, not str")
      [] x.t = "str" -> Raise("string indices must be integers")
      [] OTHER -> Raise(NotSubscriptable(x))

\* first character of the strings the model uses as parameter lists
FirstChar(s) == IF s = "query" THEN "q" ELSE s

\* x[0]
SubscriptZero(x) ==
    CASE x.t = "list" -> IF x.v # <<>> THEN Ok(x.v[1]) ELSE Raise("list index out of range")
      [] x.t = "str" -> IF x.v # "" THEN Ok(JStr(FirstChar(x.v))) ELSE Raise("string index out of range")
      [] x.t = "obj" -> Raise("0")
      [] OTHER -> Raise(NotSubscriptable(x))

\* f"{x}" for the values a parameter list may hold
Format(x) ==
    CASE x.t = "str" -> x.v
      [] x.t = "null" -> "None"
      [] x.t = "bool" -> IF x.v THEN "True" ELSE "False"
      [] OTHER -> "<repr>"

\* f'input[name="{param_name}"]'
Selector(param_name) == "input[name=\"" \o Format(param_name) \o "\"]"

ErrorObj(m) == JObj([error |-> JStr(m)])
IsErrorObj(x) == x.t = "obj" /\ DOMAIN x.v = {"error"}

----------------------------------------------------------------------------
(* The external world: pages, model responses, exception messages *)

ErrMsgs == {"Timeout 30000ms exceeded", "Target closed"}

\* page.content(): the page read and the length of its HTML
HtmlLens == {HtmlWindow, HtmlWindow + 1}
Html == [page : {"base", "results"}, len : HtmlLens]
NoHtml == [page |-> "none", len |-> 0]

\* html[:8000]
Truncate(h) == [h EXCEPT !.len = IF @ > HtmlWindow THEN HtmlWindow ELSE @]

\* values the model may give for "search_form"
SearchForms ==
    { JNull, JBool(FALSE), JNum(0), JStr(""), JList(<<>>), JObj(EmptyMap),
      JStr("q"),
      JObj([action |-> JStr("/search")]),
      JObj([action |-> JStr("/search"), params |-> JNull]),
      JObj([action |-> JStr("/search"), params |-> JList(<<>>)]),
      JObj([action |-> JStr("/search"), params |-> JList(<<JStr("q")>>)]),
      JObj([action |-> JStr("/search"), params |-> JList(<<JStr("q"), JStr("lang")>>)]),
      JObj([action |-> JStr("/search"), params |-> JList(<<JNull>>)]),
      JObj([action |-> JStr("/search"), params |-> JStr("query")]) }

\* JSON documents the model may answer with
Docs ==
    { JObj([page_type |-> JStr("homepage"), actions |-> JList(<<>>), search_form |-> f]) :
        f \in SearchForms }
    \cup { JObj([page_type |-> JStr("homepage"), actions |-> JList(<<>>)]),
           JObj(EmptyMap),
           JObj([error |-> JStr("rate limited")]),
           JList(<<>>), JNull, JStr("ok") }

\* a response text is a sequence of tokens; "DOC" stands for the JSON document
\* the marker of an opening json code fence (three backticks and "json")
FenceJson == "<fence>json"
\* the marker of a code fence (three backticks)
Fence == "<fence>"
Tokens == {FenceJson, Fence, " ", "prose", "DOC"}
Texts == UNION {[1..n -> Tokens] : n \in 0..MaxTextLen}

\* model.prompt(...): a response text, or an exception
Responses ==
    [ok : {TRUE}, text : Texts, doc : Docs, msg : {""}]
    \cup [ok : {FALSE}, text : {<<>>}, doc : {JNull}, msg : ErrMsgs]

----------------------------------------------------------------------------
(* analyze_page *)

RECURSIVE StripLeft(_)
StripLeft(q) == IF q # <<>> /\ Head(q) = " " THEN StripLeft(Tail(q)) ELSE q

RECURSIVE StripRight(_)
StripRight(q) ==
    IF q # <<>> /\ q[Len(q)] = " " THEN StripRight(SubSeq(q, 1, Len(q) - 1)) ELSE q

\* str.strip()
Strip(q) == StripRight(StripLeft(q))

\* str.find(sub, start) over tokens: least index >= start whose token begins
\* with sub, or 0 for "not found" (the json fence begins with a fence)
Find(q, sub, start) ==
    LET hits == { i \in start..Len(q) :
                    q[i] = sub \/ (sub = Fence /\ q[i] = FenceJson) }
    IN IF hits = {} THEN 0 ELSE CHOOSE i \in hits : \A j \in hits : i <= j

\* lines 66-71: take the text between the json fence and the next fence
ExtractFence(q) ==
    IF Find(q, FenceJson, 1) # 0
    THEN LET start == Find(q, FenceJson, 1) + 1
             end == Find(q, Fence, start)
         IN IF end # 0 THEN Strip(SubSeq(q, start, end - 1)) ELSE q
    ELSE q

\* json.loads: the text must be one JSON document, whitespace around it allowed
JsonLoads(q, doc) ==
    IF Strip(q) = <<"DOC">> THEN Ok(doc) ELSE Raise("Expecting value")

\* variant: the handler without `has_errors = True`
ParseErrorHandlerNoFlag(h) ==
    [result |-> ErrorObj("Failed to parse LLM output"), has_errors |-> h,
     kind |-> "k1", raised |-> FALSE, msg |-> ""]

\* lines 83-87: except json.JSONDecodeError
ParseErrorHandler(h) ==
    [result |-> ErrorObj("Failed to parse LLM output"), has_errors |-> TRUE,
     kind |-> "k1", raised |-> FALSE, msg |-> ""]

\* variant: the handler raising the exception again instead of returning
AnalyzeErrorHandlerReraise(h, m) ==
    [result |-> JNull, has_errors |-> TRUE, kind |-> "k2", raised |-> TRUE, msg |-> m]

\* lines 88-91: except Exception
AnalyzeErrorHandler(h, m) ==
    [result |-> ErrorObj("Failed to analyze page: " \o m), has_errors |-> TRUE,
     kind |-> "k2", raised |-> FALSE, msg |-> ""]

\* lines 57-91: the outcome of analyze_page when model.prompt behaves as resp
\* and the flag is h: the value returned (or raised) and the new flag
AnalyzePage(h, resp) ==
    IF ~resp.ok
    THEN AnalyzeErrorHandler(h, resp.msg)
    ELSE LET response_text == ExtractFence(Strip(resp.text))
             parsed == JsonLoads(response_text, resp.doc)
         IN IF ~parsed.ok
            THEN ParseErrorHandler(h)
            ELSE IF parsed.val.t # "obj"
                 THEN AnalyzeErrorHandler(h, "object has no attribute 'get'")
                 ELSE [result |-> parsed.val, has_errors |-> h,
                       kind |-> "none", raised |-> FALSE, msg |-> ""]

\* every outcome analyze_page can have, over all behaviours of model.prompt
AnalyzeOutcomes(h) == {AnalyzePage(h, resp) : resp \in Responses}

----------------------------------------------------------------------------
(* The pipeline: first-party decisions and handlers *)

\* variant: `if analysis` in place of the search_form test
SearchGateWholeResult(a) == Truthy(a)

\* line 104: if analysis.get("search_form")
SearchGate(a) == Truthy(Get(a, "search_form"))

\* line 110: analysis["search_form"]["params"][0]
ParamName(a) ==
    LET form == SubscriptKey(a, "search_form")
        params == IF form.ok THEN SubscriptKey(form.val, "params") ELSE form
    IN IF params.ok THEN SubscriptZero(params.val) ELSE params

\* variant: `>= 0` in place of `> 0`
InputFoundAlways(n) == n >= 0

\* line 113: page.locator(selector).count() > 0
InputFound(n) == n > 0

\* variant: the else branch recording an error
NoInputFoundAsError(r, h) ==
    [results |-> [r EXCEPT !.search_test_results = ErrorObj("No search input found")],
     has_errors |-> TRUE]

\* lines 141-142: the else branch, a warning only
NoInputFound(r, h) == [results |-> r, has_errors |-> h]

\* variant: the first handler setting the flag
ContentErrorHandlerFlagging(h) == TRUE

\* lines 129-132: the first content read failed; log, then wait and retry;
\* the flag is left as it is
ContentErrorHandler(h) == h

\* variant: the message of content_error in place of retry_error
RetryErrorHandlerFirstMessage(r, first, retry) ==
    [results |-> [r EXCEPT !.search_test_results =
                     ErrorObj("Failed to capture search results: " \o first)],
     has_errors |-> TRUE]

\* lines 137-140: the retry failed too
RetryErrorHandler(r, first, retry) ==
    [results |-> [r EXCEPT !.search_test_results =
                     ErrorObj("Failed to capture search results: " \o retry)],
     has_errors |-> TRUE]

\* lines 143-147: except Exception around the whole interaction
InteractionErrorHandler(r, m) ==
    [results |-> [r EXCEPT !.search_test_results = ErrorObj(m)],
     has_errors |-> TRUE]

\* lines 156-161
ExitCode(h) == IF h THEN 1 ELSE 0

----------------------------------------------------------------------------
(* State *)

EmptyPages == [u \in {} |-> JNull]

\* lines 14-19
InitialResults ==
    [pages |-> EmptyPages, search_detected |-> FALSE,
     search_details |-> JNull, search_test_results |-> JNull]

\* what a previous run may have left in results.json
StaleReport == [InitialResults EXCEPT !.search_detected = TRUE]

Fault(k, where) == [kind |-> k, at |-> where]

locals == <<html, analysis, selector, search_html, content_error>>
history == <<calls, reads, locates, fills, presses>>

Init ==
    /\ pc = "launch"
    /\ browser = "none"
    /\ html = NoHtml
    /\ analysis = JNull
    /\ selector = ""
    /\ search_html = NoHtml
    /\ content_error = ""
    /\ results = InitialResults
    /\ has_errors = FALSE
    /\ file \in {<<>>, <<StaleReport>>}
    /\ exit_status = <<>>
    /\ calls = <<>>
    /\ reads = <<>>
    /\ locates = <<>>
    /\ fills = <<>>
    /\ presses = 0
    /\ faults = {}

\* an exception no handler catches: traceback, interpreter exits with status 1
Uncaught ==
    /\ pc' = "exited"
    /\ exit_status' = <<1>>
    /\ faults' = faults \cup {Fault("uncaught", "top")}

\* the outer handler of the interaction block (lines 143-147) catches m
InteractionError(m) ==
    LET out == InteractionErrorHandler(results, m)
    IN /\ results' = out.results
       /\ has_errors' = out.has_errors
       /\ pc' = "close"
       /\ faults' = faults \cup {Fault("k4", "search")}

\* the record of one analyze_page(url, h) invocation whose outcome is out;
\* line 60 puts html[:8000] into the prompt
Called(url, h, out) ==
    calls' = Append(calls, [url |-> url, html |-> Truncate(h), result |-> out.result,
                            raised |-> out.raised])

----------------------------------------------------------------------------
(* Actions, one per statement that calls the browser or the model *)

\* lines 94-95
Launch ==
    /\ pc = "launch"
    /\ \/ /\ browser' = "open"
          /\ pc' = "goto"
          /\ UNCHANGED <<exit_status, faults>>
       \/ /\ Uncaught
          /\ UNCHANGED browser
    /\ UNCHANGED <<locals, results, has_errors, file, history>>

\* line 98
Goto ==
    /\ pc = "goto"
    /\ \/ /\ pc' = "content"
          /\ UNCHANGED <<exit_status, faults>>
       \/ Uncaught
    /\ UNCHANGED <<browser, locals, results, has_errors, file, history>>

\* line 99
Content ==
    /\ pc = "content"
    /\ \/ /\ \E h \in {x \in Html : x.page = "base"} : html' = h
          /\ pc' = "analyze_base"
          /\ UNCHANGED <<exit_status, faults>>
       \/ /\ Uncaught
          /\ UNCHANGED html
    /\ UNCHANGED <<browser, analysis, selector, search_html, content_error,
                   results, has_errors, file, history>>

\* lines 100-101
AnalyzeBase ==
    /\ pc = "analyze_base"
    /\ \E out \in AnalyzeOutcomes(has_errors) :
            /\ Called(BASE_URL, html, out)
            /\ has_errors' = out.has_errors
            /\ IF out.raised
               THEN /\ Uncaught
                    /\ UNCHANGED <<analysis, results>>
               ELSE /\ analysis' = out.result
                    /\ results' = [results EXCEPT !.pages = (BASE_URL :> out.result)]
                    /\ pc' = "gate"
                    /\ faults' = IF out.kind = "none" THEN faults
                                 ELSE faults \cup {Fault(out.kind, "base")}
                    /\ UNCHANGED exit_status
    /\ UNCHANGED <<browser, html, selector, search_html, content_error, file,
                   reads, locates, fills, presses>>

\* lines 104-106
Gate ==
    /\ pc = "gate"
    /\ IF SearchGate(analysis)
       THEN LET form == SubscriptKey(analysis, "search_form")
            IN IF form.ok
               THEN /\ results' = [results EXCEPT !.search_detected = TRUE,
                                                  !.search_details = form.val]
                    /\ pc' = "param"
                    /\ UNCHANGED <<exit_status, faults>>
               ELSE /\ results' = [results EXCEPT !.search_detected = TRUE]
                    /\ Uncaught
       ELSE /\ pc' = "close"
            /\ UNCHANGED <<results, exit_status, faults>>
    /\ UNCHANGED <<browser, locals, has_errors, file, history>>

\* lines 110-112
Param ==
    /\ pc = "param"
    /\ LET param_name == ParamName(analysis)
       IN IF param_name.ok
          THEN /\ selector' = Selector(param_name.val)
               /\ pc' = "locate"
               /\ UNCHANGED <<results, has_errors, faults>>
          ELSE /\ InteractionError(param_name.msg)
               /\ UNCHANGED selector
    /\ UNCHANGED <<browser, html, analysis, search_html, content_error, file,
                   exit_status, history>>

\* lines 113, 141-142
Locate ==
    /\ pc = "locate"
    /\ \/ \E n \in 0..MaxMatches :
            /\ locates' = Append(locates, n)
            /\ IF InputFound(n)
               THEN /\ pc' = "fill"
                    /\ UNCHANGED <<results, has_errors, faults>>
               ELSE LET out == NoInputFound(results, has_errors)
                    IN /\ results' = out.results
                       /\ has_errors' = out.has_errors
                       /\ pc' = "close"
                       /\ faults' = faults \cup {Fault("k3", "search")}
       \/ /\ \E m \in ErrMsgs : InteractionError(m)
          /\ UNCHANGED locates
    /\ UNCHANGED <<browser, locals, file, exit_status, calls, reads, fills, presses>>

\* line 115
Fill ==
    /\ pc = "fill"
    /\ fills' = Append(fills, [selector |-> selector, value |-> SEARCH_TEST_QUERY])
    /\ \/ /\ locates[Len(locates)] > 0
          /\ pc' = "press"
          /\ UNCHANGED <<results, has_errors, faults>>
       \/ \E m \in ErrMsgs : InteractionError(m)
    /\ UNCHANGED <<browser, locals, file, exit_status, calls, reads, locates, presses>>

\* lines 118-119: press Enter inside expect_navigation(timeout=30000)
Press ==
    /\ pc = "press"
    /\ \/ /\ presses' = presses + 1
          /\ pc' = "wait_load"
          /\ UNCHANGED <<results, has_errors, faults>>
       \/ /\ presses' = presses + 1
          /\ InteractionError("Timeout 30000ms exceeded")
       \/ /\ UNCHANGED presses
          /\ \E m \in ErrMsgs : InteractionError(m)
    /\ UNCHANGED <<browser, locals, file, exit_status, calls, reads, locates, fills>>

\* line 122
WaitLoadState ==
    /\ pc = "wait_load"
    /\ \/ /\ pc' = "wait_settle"
          /\ UNCHANGED <<results, has_errors, faults>>
       \/ \E m \in ErrMsgs : InteractionError(m)
    /\ UNCHANGED <<browser, locals, file, exit_status, history>>

\* line 123
WaitSettle ==
    /\ pc = "wait_settle"
    /\ \/ /\ pc' = "read"
          /\ UNCHANGED <<results, has_errors, faults>>
       \/ \E m \in ErrMsgs : InteractionError(m)
    /\ UNCHANGED <<browser, locals, file, exit_status, history>>

\* lines 126, 129-130
Read ==
    /\ pc = "read"
    /\ \/ \E h \in {x \in Html : x.page = "results"} :
            /\ search_html' = h
            /\ reads' = Append(reads, [ok |-> TRUE, html |-> h, msg |-> ""])
            /\ pc' = "analyze_search"
            /\ UNCHANGED <<content_error, has_errors>>
       \/ \E m \in ErrMsgs :
            /\ content_error' = m
            /\ reads' = Append(reads, [ok |-> FALSE, html |-> NoHtml, msg |-> m])
            /\ has_errors' = ContentErrorHandler(has_errors)
            /\ pc' = "wait_retry"
            /\ UNCHANGED search_html
    /\ UNCHANGED <<browser, html, analysis, selector, results, file, exit_status,
                   calls, locates, fills, presses, faults>>

\* lines 127-128
AnalyzeSearch ==
    /\ pc = "analyze_search"
    /\ \E out \in AnalyzeOutcomes(has_errors) :
            /\ Called(SEARCH_URL, search_html, out)
            /\ IF out.raised
               THEN /\ content_error' = out.msg
                    /\ has_errors' = ContentErrorHandler(out.has_errors)
                    /\ pc' = "wait_retry"
                    /\ UNCHANGED <<results, faults>>
               ELSE /\ results' = [results EXCEPT !.search_test_results = out.result]
                    /\ has_errors' = out.has_errors
                    /\ pc' = "close"
                    /\ faults' = IF out.kind = "none" THEN faults
                                 ELSE faults \cup {Fault(out.kind, "search")}
                    /\ UNCHANGED content_error
    /\ UNCHANGED <<browser, html, analysis, selector, search_html, file, exit_status,
                   reads, locates, fills, presses>>

\* line 132
WaitRetry ==
    /\ pc = "wait_retry"
    /\ \/ /\ pc' = "read_retry"
          /\ UNCHANGED <<results, has_errors, faults>>
       \/ \E m \in ErrMsgs : InteractionError(m)
    /\ UNCHANGED <<browser, locals, file, exit_status, history>>

\* the handler of lines 137-140 catches m
RetryError(m) ==
    LET out == RetryErrorHandler(results, content_error, m)
    IN /\ results' = out.results
       /\ has_errors' = out.has_errors
       /\ pc' = "close"
       /\ faults' = faults \cup {Fault("k5", "search")}

\* lines 134, 137-140
ReadRetry ==
    /\ pc = "read_retry"
    /\ \/ \E h \in {x \in Html : x.page = "results"} :
            /\ search_html' = h
            /\ reads' = Append(reads, [ok |-> TRUE, html |-> h, msg |-> ""])
            /\ pc' = "analyze_retry"
            /\ UNCHANGED <<results, has_errors, faults>>
       \/ \E m \in ErrMsgs :
            /\ reads' = Append(reads, [ok |-> FALSE, html |-> NoHtml, msg |-> m])
            /\ RetryError(m)
            /\ UNCHANGED search_html
    /\ UNCHANGED <<browser, html, analysis, selector, content_error, file, exit_status,
                   calls, locates, fills, presses>>

\* lines 135-136
AnalyzeRetry ==
    /\ pc = "analyze_retry"
    /\ \E out \in AnalyzeOutcomes(has_errors) :
            /\ Called(SEARCH_URL, search_html, out)
            /\ IF out.raised
               THEN RetryError(out.msg)
               ELSE /\ results' = [results EXCEPT !.search_test_results = out.result]
                    /\ has_errors' = out.has_errors
                    /\ pc' = "close"
                    /\ faults' = IF out.kind = "none" THEN faults
                                 ELSE faults \cup {Fault(out.kind, "search")}
    /\ UNCHANGED <<browser, locals, file, exit_status, reads, locates, fills, presses>>

\* line 149
Close ==
    /\ pc = "close"
    /\ browser' = "closed"
    /\ pc' = "write"
    /\ UNCHANGED <<locals, results, has_errors, file, exit_status, history, faults>>

\* lines 152-153: open(..., "w") truncates, json.dump writes one document
Write(f, r) == <<r>>

SaveResults ==
    /\ pc = "write"
    /\ file' = Write(file, results)
    /\ pc' = "exit"
    /\ UNCHANGED <<browser, locals, results, has_errors, exit_status, history, faults>>

\* lines 156-161
Exit ==
    /\ pc = "exit"
    /\ exit_status' = <<ExitCode(has_errors)>>
    /\ pc' = "exited"
    /\ UNCHANGED <<browser, locals, results, has_errors, file, history, faults>>

Next ==
    \/ Launch \/ Goto \/ Content \/ AnalyzeBase \/ Gate \/ Param \/ Locate
    \/ Fill \/ Press \/ WaitLoadState \/ WaitSettle \/ Read \/ AnalyzeSearch
    \/ WaitRetry \/ ReadRetry \/ AnalyzeRetry \/ Close \/ SaveResults \/ Exit

Spec == Init /\ [][Next]_vars

----------------------------------------------------------------------------
(* Vocabulary of the properties *)

\* the pipeline is past the interaction block
Settled == pc \in {"close", "write", "exit", "exited"}

\* the run ended through sys.exit at lines 156-161
ExitedNormally == pc = "exited" /\ Fault("uncaught", "top") \notin faults

\* the base page was analysed and its AnalysisResult stored
BaseAnalysed == calls # <<>> /\ analysis # JNull

\* invocations of the analyzer on the page reached by the submission
SearchCalls == {i \in DOMAIN calls : calls[i].url = SEARCH_URL}

\* the selector matched at least one input
InputLocated == \E i \in DOMAIN locates : locates[i] > 0

\* the post-submit content read failed once and succeeded on the retry
RetrySucceeded == Len(reads) = 2 /\ ~reads[1].ok /\ reads[2].ok

\* the post-submit content read failed on both attempts
BothReadsFailed == Len(reads) = 2 /\ ~reads[1].ok /\ ~reads[2].ok

\* the analyzer itself failed on the results page (kind 1 or kind 2)
SearchAnalysisFailed ==
    Fault("k1", "search") \in faults \/ Fault("k2", "search") \in faults

\* the values Python treats as false
Falsy == {JNull, JBool(FALSE), JNum(0), JStr(""), JList(<<>>), JObj(EmptyMap)}

\* the failure kinds 1, 2, 4 and 5
FlaggedKinds == {"k1", "k2", "k4", "k5"}

\* where the report holds the error object of a failure
Recorded(f) ==
    IF f.at = "base"
    THEN BASE_URL \in DOMAIN results.pages /\ IsErrorObj(results.pages[BASE_URL])
    ELSE IsErrorObj(results.search_test_results)

----------------------------------------------------------------------------
(* C1 *)

\* C1: once the browser was launched, a run that has ended has rewritten
\* results.json with the complete RunReport, whatever the outcome of each step
\* (base navigation and base content read included).
C1_ReportWrittenBeforeExit ==
    pc = "exited" /\ browser # "none" => file = <<results>>

(* C2 *)

\* C2: the exit status is 1 if and only if a step set the error flag.
C2_ExitStatusIffFlag ==
    pc = "exited" /\ browser # "none" => (exit_status = <<1>> <=> has_errors)

(* C3 *)

\* C3 as stated: in the written report, search_detected is true iff the base
\* page's search_form is non-null, for every JSON value of search_form.
C3_DetectedIffNonNull ==
    ExitedNormally =>
        (file[1].search_detected <=> Get(file[1].pages[BASE_URL], "search_form") # JNull)

\* C3 as amended: in the written report, search_detected is true iff the base
\* page's search_form is a value Python treats as true: not null, false, 0,
\* the empty string, the empty list or the empty object.
C3_DetectedIffTruthy ==
    ExitedNormally =>
        /\ file = <<results>>
        /\ file[1].search_detected <=>
              Get(file[1].pages[BASE_URL], "search_form") \notin Falsy

\* the model answered with an empty object for search_form
C3_Witness ==
    /\ ExitedNormally
    /\ Get(file[1].pages[BASE_URL], "search_form") = JObj(EmptyMap)
    /\ ~file[1].search_detected

(* C4 *)

\* C4 as stated: search_test_results is non-null only if search_detected is
\* true and the locate step matched at least one input.
C4_TestResultsOnlyAfterLocate ==
    results.search_test_results # JNull => results.search_detected /\ InputLocated

\* C4 as amended: search_test_results is non-null only if search_detected is
\* true and either the locate step matched at least one input or an exception
\* raised inside the interaction block was recorded by its handler as an error
\* object with the flag set; a locate that matches no input leaves it null.
C4_TestResultsOnlyAfterLocateOrError ==
    /\ results.search_test_results # JNull =>
          /\ results.search_detected
          /\ \/ InputLocated
             \/ /\ Fault("k4", "search") \in faults
                /\ IsErrorObj(results.search_test_results)
                /\ has_errors
    /\ locates # <<>> /\ locates[Len(locates)] = 0 => results.search_test_results = JNull

\* an exception before the locate step was recorded in search_test_results
C4_Witness ==
    /\ pc = "exited"
    /\ locates = <<>>
    /\ results.search_detected
    /\ IsErrorObj(results.search_test_results)

(* C5 *)

\* C5 as stated: when the content read fails once and succeeds on the retry,
\* the run ends with the flag not set and search_test_results equal to the
\* analysis of the retry's HTML.
C5_RetryLeavesFlagClear ==
    pc = "exited" /\ RetrySucceeded =>
        /\ ~has_errors
        /\ SearchCalls # {}
        /\ results.search_test_results = calls[Len(calls)].result
        /\ calls[Len(calls)].html = Truncate(reads[2].html)

\* C5 as amended: when the content read fails once and succeeds on the retry,
\* the run ends with search_test_results equal to the analysis of the retry's
\* HTML, and the flag is set exactly when that analysis itself failed (kind 1
\* or 2); the failed first read does not set it.
C5_RetryFlagFollowsAnalysis ==
    pc = "exited" /\ RetrySucceeded =>
        /\ has_errors <=> SearchAnalysisFailed
        /\ Cardinality(SearchCalls) = 1
        /\ calls[Len(calls)].url = SEARCH_URL
        /\ results.search_test_results = calls[Len(calls)].result
        /\ calls[Len(calls)].html = Truncate(reads[2].html)

\* a retry that succeeded and whose analysis succeeded too
C5_Witness ==
    /\ pc = "exited"
    /\ RetrySucceeded
    /\ ~has_errors
    /\ results.search_test_results = calls[Len(calls)].result
    /\ "page_type" \in DOMAIN results.search_test_results.v

(* C6 *)

\* C6 as stated: when the first parameter names an input present on the page
\* and the fill and the submission went through (the results page was read),
\* exactly one analyzer invocation was made on the resulting page and
\* search_test_results equals its AnalysisResult.
C6_ExactlyOneSearchAnalysis ==
    pc = "exited" /\ InputLocated /\ reads # <<>> =>
        /\ Cardinality(SearchCalls) = 1
        /\ results.search_test_results = calls[Len(calls)].result

\* C6 as amended: when the first parameter names an input present on the page,
\* at most one analyzer invocation is made on the resulting page: exactly one
\* when the first content read or its single retry succeeds, and then
\* search_test_results equals its AnalysisResult (success or error object);
\* none when the interaction or both content reads fail, and then
\* search_test_results is the handler's error object and the flag is set.
C6_AtMostOneSearchAnalysis ==
    /\ Cardinality(SearchCalls) <= 1
    /\ Settled /\ InputLocated =>
          /\ Cardinality(SearchCalls) = 1 <=> (\E i \in DOMAIN reads : reads[i].ok)
          /\ SearchCalls # {} =>
                /\ calls[Len(calls)].url = SEARCH_URL
                /\ results.search_test_results = calls[Len(calls)].result
          /\ SearchCalls = {} =>
                IsErrorObj(results.search_test_results) /\ has_errors

\* the input was found, filled and submitted, and the results page analysed once
C6_Witness ==
    /\ pc = "exited"
    /\ InputLocated /\ presses = 1
    /\ fills = <<[selector |-> "input[name=\"q\"]", value |-> "test"]>>
    /\ Cardinality(SearchCalls) = 1
    /\ results.search_test_results = calls[Len(calls)].result
    /\ reads[1].ok

(* C7 *)

\* C7: every failure of kind 1, 2, 4 or 5 sets the flag and is recorded in the
\* report as an error object (in pages[BASE_URL] or search_test_results); no
\* exception reaches the top level; from there the run can always take its
\* next step until it has exited, and it exits with the report written and
\* status 1.
C7_FailuresRecordedAndReported ==
    \A f \in faults : f.kind \in FlaggedKinds =>
        /\ has_errors
        /\ Recorded(f)
        /\ Fault("uncaught", "top") \notin faults
        /\ pc = "exited" \/ ENABLED Next
        /\ pc = "exited" => file = <<results>> /\ exit_status = <<1>>

\* the model's answer for the results page was not JSON, and the report was written
C7_Witness ==
    /\ pc = "exited"
    /\ Fault("k1", "search") \in faults
    /\ results.search_test_results = ErrorObj("Failed to parse LLM output")
    /\ file = <<results>>

(* C8 *)

\* C8: when params is a non-empty list and the selector built from its first
\* element matches no input, search_test_results stays null, the flag stays
\* clear, no fill, key press, content read or second analysis happens, and the
\* run ends with the report written and status 0.
C8_SoftSkip ==
    /\ locates # <<>>
    /\ locates[1] = 0
    /\ Get(Get(analysis, "search_form"), "params").t = "list"
    => /\ results.search_test_results = JNull
       /\ ~has_errors
       /\ fills = <<>> /\ presses = 0 /\ reads = <<>> /\ SearchCalls = {}
       /\ Settled
       /\ pc = "exited" => file = <<results>> /\ exit_status = <<0>>

\* a run that ended after the selector matched nothing
C8_Witness ==
    /\ pc = "exited"
    /\ locates = <<0>>
    /\ Get(Get(analysis, "search_form"), "params") = JList(<<JStr("q"), JStr("lang")>>)

(* C9 *)

\* C9: when the base analysis has no search_form (null, absent, or the
\* analysis is an error object), search_detected is false, search_details and
\* search_test_results are null, and no locate, fill, submit, content read or
\* second analyzer invocation ever happens.
C9_NoSearchFormNoInteraction ==
    BaseAnalysed /\ Get(analysis, "search_form") = JNull =>
        /\ ~results.search_detected
        /\ results.search_details = JNull
        /\ results.search_test_results = JNull
        /\ locates = <<>> /\ fills = <<>> /\ presses = 0 /\ reads = <<>>
        /\ Len(calls) = 1
        /\ pc \in {"gate", "close", "write", "exit", "exited"}
        /\ pc = "exited" => file = <<results>>

\* a run that ended after the model reported search_form: null
C9_Witness ==
    /\ pc = "exited"
    /\ BaseAnalysed
    /\ "search_form" \in DOMAIN analysis.v
    /\ analysis.v.search_form = JNull

(* C10 *)

\* C10: the results page is read at most twice; when both reads fail,
\* search_test_results is the error object "Failed to capture search results:
\* <message>" with the retry's message, the flag is set, and the outer
\* handler does not overwrite the entry.
C10_AtMostOneRetry ==
    /\ Len(reads) <= 2
    /\ BothReadsFailed =>
          /\ results.search_test_results =
                ErrorObj("Failed to capture search results: " \o reads[2].msg)
          /\ has_errors
          /\ Fault("k4", "search") \notin faults
          /\ SearchCalls = {}
          /\ Settled

\* both reads failed, with different messages, and the run ended
C10_Witness ==
    /\ pc = "exited"
    /\ BothReadsFailed
    /\ reads[1].msg # reads[2].msg
    /\ file = <<results>>

====
